---- MODULE Spec2Model ----
(***************************************************************************)
(* Model of asyncua/common/structures.py: the custom-structure type        *)
(* system.  A schema document is a sequence of XML elements; _make_model   *)
(* turns it into a model of EnumType / Struct elements, get_code renders   *)
(* each element as text, _generate_python_class executes the text in a     *)
(* namespace, and load_type_definitions drives all of it against a server. *)
(*                                                                         *)
(* Text is kept as text: names, type names, defaults and emitted lines are *)
(* strings, built and tested with the string operations the code uses.     *)
(***************************************************************************)
EXTENDS Integers, Sequences, FiniteSets, TLC

VARIABLES
    xml,        \* the schema document handed to the generator
    texts,      \* the texts make_model_from_string was called with, in order
    parsed,     \* TRUE once make_model_from_string has been called with xml
    model,      \* StructGenerator.model
    raised,     \* the exception the last call raised, or NoError
    emitted,    \* the definitions returned by get_code during the last call
    file,       \* the lines save_to_file wrote
    env,        \* the namespace get_python_classes executes in
    calls,      \* number of calls on the generator other than the one
                \* that built xml
    pc,         \* load_type_definitions: the await the coroutine is at
    nodes,      \* load_type_definitions: number of nodes in the nodes argument
    nodeIdx,    \* load_type_definitions: index of the node being processed
    descs,      \* load_type_definitions: child descriptors of that node
    descIdx,    \* load_type_definitions: index of the descriptor looked up
    references, \* load_type_definitions: what get_references returned for
                \* each descriptor of the node looked up so far
    structs_dict,   \* load_type_definitions: the type map (env of the call)
    generators, \* load_type_definitions: models of the generators so far
    registry,   \* the ua.register_extension_object calls made, in order
    ua_ns,      \* attributes set on the shared ua namespace by setattr
    co,         \* concurrent load_type_definitions calls: the local state
                \* of each coroutine
    writes,     \* concurrent load_type_definitions calls: the writes made
                \* to the registry and to the ua namespace, in order
    le          \* load_enums: the arguments and local variables of the
                \* coroutine, and what the server has returned to it

genVars  == <<xml, texts, parsed, model, raised, emitted, file, env, calls>>
concVars == <<co, writes>>
\* what load_enums leaves alone
enumFrame == <<xml, texts, parsed, model, emitted, file, calls,
               pc, nodes, nodeIdx, descs, descIdx, references, structs_dict,
               generators, registry, co, writes>>
loadVars == <<pc, nodes, nodeIdx, descs, descIdx, references, structs_dict,
              generators, registry, ua_ns>>
vars     == <<xml, texts, parsed, model, raised, emitted, file, env, calls,
              pc, nodes, nodeIdx, descs, descIdx, references, structs_dict,
              generators, registry, ua_ns, co, writes, le>>

-----------------------------------------------------------------------------
(* Bounds *)

MaxFields == 3      \* fields of the struct in a single-struct document
MaxDecls  == 2      \* top-level elements of a multi-declaration document
MaxCalls  == 2      \* get_python_classes / save_to_file calls on a generator
MaxNodes  == 2      \* nodes handed to load_type_definitions
MaxDescs  == 2      \* child descriptors of a node
MaxEnums  == 2      \* enumeration data types the server lists to load_enums

-----------------------------------------------------------------------------
(* Python values *)

None    == "None"   \* Python's None; it is only ever formatted into text
NoError == "NoError"
EmptyMap == [n \in {} |-> None]

-----------------------------------------------------------------------------
(* String operations of the Python code *)

startswith(s, p) == Len(s) >= Len(p) /\ SubSeq(s, 1, Len(p)) = p

endswith(s, p) ==
    Len(s) >= Len(p) /\ SubSeq(s, Len(s) - Len(p) + 1, Len(s)) = p

\* position of the first occurrence of character c in s, 0 if there is none
find(s, c) ==
    LET hits == {i \in 1..Len(s) : SubSeq(s, i, i) = c}
    IN  IF hits = {} THEN 0 ELSE CHOOSE i \in hits : \A j \in hits : i <= j

\* s.split(":")[1]: the text between the first and the second colon
split_1(s) ==
    LET rest == SubSeq(s, find(s, ":") + 1, Len(s))
        stop == find(rest, ":")
    IN  IF stop = 0 THEN rest ELSE SubSeq(rest, 1, stop - 1)

\* s.replace(" ", "")
RECURSIVE replace_spaces(_)
replace_spaces(s) ==
    IF s = "" THEN ""
    ELSE IF SubSeq(s, 1, 1) = " " THEN replace_spaces(Tail(s))
    ELSE SubSeq(s, 1, 1) \o replace_spaces(Tail(s))

\* structures104.clean_name: the name as a valid identifier, without spaces
\* and never the reserved word
clean_name(name) ==
    LET s == replace_spaces(name)
    IN  IF s = "None" THEN "None_" ELSE s

-----------------------------------------------------------------------------
(* Schema documents: the element tree ET.fromstring returns *)

EnumeratedValueElt(n, v) ==
    [tag |-> "opc:EnumeratedValue", Name |-> n, Value |-> v]
FieldElt(n, t, s) ==
    [tag |-> "opc:Field", Name |-> n, TypeName |-> t, SwitchField |-> s]
DocumentationElt == [tag |-> "opc:Documentation"]
EnumeratedTypeElt(n, cs) ==
    [tag |-> "opc:EnumeratedType", Name |-> n, children |-> cs]
StructuredTypeElt(n, cs) ==
    [tag |-> "opc:StructuredType", Name |-> n, children |-> cs]
ImportElt == [tag |-> "opc:Import", Name |-> "", children |-> <<>>]

\* the field declarations single-struct documents are made of
FieldPool ==
    { FieldElt("NoOfPoints", "opc:Int32", ""),
      FieldElt("__PointsLength", "opc:Int32", ""),
      FieldElt("#Points", "tns:Missing", ""),
      FieldElt("Points", "opc:Double", ""),
      FieldElt("Filler", "opc:Bit", ""),
      FieldElt("Pad", "opc:Bit", "PadSpecified"),
      FieldElt("Value", "opc:Int32", "ValueSpecified"),
      FieldElt("ColorField", "tns:Color", ""),
      FieldElt("SwitchField", "opc:UInt32", ""),
      FieldElt("Text", "opc:Char", ""),
      FieldElt("My Field", "ua:String", "MyFieldSpecified"),
      DocumentationElt }

SeqsUpTo(S, n) == UNION {[1..k -> S] : k \in 0..n}

SingleStructDocs ==
    { <<StructuredTypeElt("Record", fs)>> : fs \in SeqsUpTo(FieldPool, MaxFields) }

Color ==
    EnumeratedTypeElt("Color",
        << EnumeratedValueElt("Red", "0"), DocumentationElt,
           EnumeratedValueElt("Green", "1"), EnumeratedValueElt("Blue", "2") >>)
\* two members whose names collide once the spaces are removed
Mode ==
    EnumeratedTypeElt("Mode",
        << EnumeratedValueElt("None", "0"), EnumeratedValueElt("Not Set", "1"),
           EnumeratedValueElt("NotSet", "2") >>)
Shape ==
    StructuredTypeElt("Shape", << FieldElt("ColorField", "tns:Color", "") >>)
Line ==
    StructuredTypeElt("Line",
        << FieldElt("NoOfPoints", "opc:Int32", ""),
           FieldElt("Points", "opc:Double", "") >>)
Flag ==
    StructuredTypeElt("Flag",
        << FieldElt("Filler", "opc:Bit", ""), FieldElt("Value", "opc:Int32", "") >>)
Option ==
    StructuredTypeElt("Option",
        << FieldElt("A", "opc:Int32", "ASpecified"),
           FieldElt("ColorField", "tns:Color", "ColorSpecified"),
           FieldElt("NoOfRest", "opc:Int32", "") >>)

Level ==
    EnumeratedTypeElt("Level",
        << EnumeratedValueElt("No ne", "0"), EnumeratedValueElt("High", "1") >>)

Trail ==
    StructuredTypeElt("Trail",
        << FieldElt("Value", "opc:Int32", ""), FieldElt("NoOfRest", "opc:Int32", ""),
           FieldElt("Filler", "opc:Bit", "") >>)

DeclPool == {Color, Mode, Level, Shape, Line, Flag, Option, Trail, ImportElt}

MultiDocs == {d \in SeqsUpTo(DeclPool, MaxDecls) : Len(d) > 0}

Docs == SingleStructDocs \cup MultiDocs

-----------------------------------------------------------------------------
(* The type model *)

\* EnumeratedValue.__init__
EnumeratedValue(name, value) ==
    [Name  |-> replace_spaces(IF name = "None" THEN "None_" ELSE name),
     Value |-> value]

\* EnumType.__init__
EnumType(name) ==
    [kind |-> "EnumType", name |-> clean_name(name), fields |-> <<>>,
     typeid |-> None]

\* Struct.__init__
Struct(name) ==
    [kind |-> "Struct", name |-> clean_name(name), fields |-> <<>>,
     typeid |-> None, option_counter |-> 0]

\* Field.__init__
Field(name) ==
    [name |-> name, uatype |-> None, value |-> None, array |-> FALSE,
     is_optional |-> FALSE]

\* _is_array_field without the test of line 141
is_array_field_without_NoOf(name) ==
    \/ startswith(name, "__") /\ endswith(name, "Length")
    \/ startswith(name, "#")

\* StructGenerator._is_array_field
is_array_field(name) ==
    \/ startswith(name, "NoOf")
    \/ startswith(name, "__") /\ endswith(name, "Length")
    \/ startswith(name, "#")

SchemaParseError == "SchemaParseError"

Numbers ==
    {"Int16", "Int32", "Int64", "UInt16", "UInt32", "UInt64",
     "Double", "Float", "Byte", "SByte"}

\* get_default_value that answers a constructor call for any other type
get_default_value_lenient(uatype, enums) ==
    IF uatype \in Numbers THEN "0"
    ELSE IF uatype = "Boolean" THEN "False"
    ELSE IF uatype \in {"String", "Char", "CharArray", "ByteString"} THEN "''"
    ELSE IF uatype = "DateTime" THEN "datetime(1970, 1, 1, tzinfo=timezone.utc)"
    ELSE IF uatype = "Guid" THEN "uuid.UUID(int=0)"
    ELSE IF uatype \in DOMAIN enums
         THEN "ua." \o uatype \o "(" \o enums[uatype] \o ")"
    ELSE "ua." \o uatype \o "()"

\* structures104.get_default_value(uatype, enums, hack=True): the zero
\* equivalent of a primitive, a constructed reference for an enum of the side
\* map, an error for a type that is neither
get_default_value(uatype, enums) ==
    IF uatype \in Numbers THEN "0"
    ELSE IF uatype = "Boolean" THEN "False"
    ELSE IF uatype \in {"String", "Char", "CharArray", "ByteString"} THEN "''"
    ELSE IF uatype = "DateTime" THEN "datetime(1970, 1, 1, tzinfo=timezone.utc)"
    ELSE IF uatype = "Guid" THEN "uuid.UUID(int=0)"
    ELSE IF uatype \in DOMAIN enums
         THEN "ua." \o uatype \o "(" \o enums[uatype] \o ")"
    ELSE SchemaParseError

\* _make_model, lines 156-162: the members of one enumerated type and the
\* side map entry every member overwrites
RECURSIVE enum_values(_, _, _)
enum_values(child, j, st) ==
    IF j > Len(child.children) THEN st
    ELSE LET xmlfield == child.children[j]
         IN  IF endswith(xmlfield.tag, "EnumeratedValue")
             THEN enum_values(child, j + 1,
                     [fields |-> Append(st.fields,
                                   EnumeratedValue(xmlfield.Name, xmlfield.Value)),
                      enums  |-> (child.Name :> xmlfield.Value) @@ st.enums])
             ELSE enum_values(child, j + 1, st)

\* _make_model, lines 153-163: the first pass
RECURSIVE enum_pass(_, _, _)
enum_pass(root, i, st) ==
    IF i > Len(root) THEN st
    ELSE LET child == root[i]
         IN  IF endswith(child.tag, "EnumeratedType")
             THEN LET r == enum_values(child, 1,
                              [fields |-> <<>>, enums |-> st.enums])
                      intenum == [EnumType(child.Name) EXCEPT !.fields = r.fields]
                  IN  enum_pass(root, i + 1,
                          [model |-> Append(st.model, intenum),
                           enums |-> r.enums])
             ELSE enum_pass(root, i + 1, st)

\* _type of a field declaration, lines 177-179
local_type(TypeName) ==
    IF find(TypeName, ":") # 0 THEN split_1(TypeName) ELSE TypeName

\* line 180 without the test: no field is taken for a filler
is_filler_never(type) == FALSE

\* line 180: a bit field or filler, ignored
is_filler(type) == type = "Bit"

\* line 185 testing only that the attribute is there
is_optional_field_any(xmlfield) == "SwitchField" \in DOMAIN xmlfield

\* line 185: the declaration carries a non-empty SwitchField attribute
is_optional_field(xmlfield) == xmlfield.SwitchField # ""

\* _make_model, lines 170-194: the fields of one structured type
RECURSIVE struct_fields(_, _, _, _)
struct_fields(child, j, enums, st) ==
    IF j > Len(child.children) \/ st.err THEN st
    ELSE LET xmlfield == child.children[j]
         IN
         IF ~endswith(xmlfield.tag, "Field")
         THEN struct_fields(child, j + 1, enums, st)
         ELSE IF is_array_field(xmlfield.Name)
         THEN struct_fields(child, j + 1, enums, [st EXCEPT !.array = TRUE])
         ELSE IF is_filler(local_type(xmlfield.TypeName))
         THEN struct_fields(child, j + 1, enums, st)
         ELSE
            LET uatype   == clean_name(local_type(xmlfield.TypeName))
                optional == is_optional_field(xmlfield)
                default  == get_default_value(uatype, enums)
                field    ==
                    [name        |-> clean_name(xmlfield.Name),
                     uatype      |-> uatype,
                     value       |-> IF st.array
                                     THEN "field(default_factory=list)"
                                     ELSE default,
                     array       |-> st.array,
                     is_optional |-> optional]
            IN  IF default = SchemaParseError
                THEN [st EXCEPT !.err = TRUE]
                ELSE struct_fields(child, j + 1, enums,
                        [struct |-> [st.struct EXCEPT
                                        !.fields = Append(@, field),
                                        !.option_counter =
                                            IF optional THEN @ + 1 ELSE @],
                         array  |-> FALSE,
                         err    |-> FALSE])

\* line 165 taking every element that is not an enumerated type
is_structured_type_or_other(tag) == ~endswith(tag, "EnumeratedType")

\* line 165: the element is a structured type
is_structured_type(tag) == endswith(tag, "StructuredType")

\* line 168 leaving the flag as the struct before left it
initial_array_carried(pending) == pending

\* line 168: array = False at the head of every struct
initial_array(pending) == FALSE

\* _make_model, lines 165-195: the second pass
RECURSIVE struct_pass(_, _, _, _)
struct_pass(root, i, enums, st) ==
    IF i > Len(root) \/ st.err THEN st
    ELSE LET child == root[i]
         IN  IF is_structured_type(child.tag)
             THEN LET r == struct_fields(child, 1, enums,
                              [struct |-> Struct(child.Name),
                               array |-> initial_array(st.array),
                               err |-> FALSE])
                  IN  IF r.err
                      THEN [st EXCEPT !.err = TRUE]
                      ELSE struct_pass(root, i + 1, enums,
                              [model |-> Append(st.model, r.struct),
                               array |-> r.array,
                               err |-> FALSE])
             ELSE struct_pass(root, i + 1, enums, st)

\* _make_model with the two loops in the other order
make_model_structs_first(self_model, root) ==
    LET p1 == enum_pass(root, 1, [model |-> <<>>, enums |-> EmptyMap])
        p2 == struct_pass(root, 1, p1.enums,
                          [model |-> self_model, array |-> FALSE, err |-> FALSE])
    IN  [model |-> p2.model \o p1.model, err |-> p2.err]

\* StructGenerator._make_model: self.model after the call and whether the
\* call raised
make_model(self_model, root) ==
    LET p1 == enum_pass(root, 1, [model |-> self_model, enums |-> EmptyMap])
    IN  struct_pass(root, 1, p1.enums,
                    [model |-> p1.model, array |-> FALSE, err |-> FALSE])

-----------------------------------------------------------------------------
(* Code emission *)

RECURSIVE Flatten(_)
Flatten(ss) == IF ss = <<>> THEN <<>> ELSE Head(ss) \o Flatten(Tail(ss))

\* EnumType.get_code with the loop of line 47 starting at the second member
enum_get_code_from_second(self) ==
    << "class " \o self.name \o "(IntEnum):" >> \o
    [i \in 1..(Len(self.fields) - 1) |->
        "    " \o clean_name(self.fields[i + 1].Name) \o " = " \o
        self.fields[i + 1].Value]

\* EnumType.get_code: the class line and one line per member
enum_get_code(self) ==
    << "class " \o self.name \o "(IntEnum):" >> \o
    [i \in 1..Len(self.fields) |->
        "    " \o clean_name(self.fields[i].Name) \o " = " \o self.fields[i].Value]

\* Struct.get_code, lines 87-90: self.fields once the call has run
struct_fields_after_get_code(self) ==
    IF self.option_counter > 0
    THEN << [Field("Encoding") EXCEPT !.uatype = "UInt32"] >> \o self.fields
    ELSE self.fields

\* lines 98-109 with the test of line 103 failing for an array
field_code_optional_scalar(sfield) ==
    LET quoted  == "'ua." \o sfield.uatype \o "'"
        listed  == IF sfield.array THEN "List[" \o quoted \o "]" ELSE quoted
        uavalue == IF startswith(sfield.value, "ua.")
                   THEN "field(default_factory=lambda: " \o sfield.value \o ")"
                   ELSE sfield.value
    IN  IF sfield.is_optional /\ ~sfield.array
        THEN "    " \o sfield.name \o ": Optional[" \o listed \o "] = None"
        ELSE "    " \o sfield.name \o ":" \o listed \o " = " \o uavalue

\* Struct.get_code, lines 98-109: the line of one field
field_code(sfield) ==
    LET quoted  == "'ua." \o sfield.uatype \o "'"
        listed  == IF sfield.array THEN "List[" \o quoted \o "]" ELSE quoted
        uatype  == IF listed = "List[ua.Char]" THEN "String" ELSE listed
        uavalue == IF startswith(sfield.value, "ua.")
                   THEN "field(default_factory=lambda: " \o sfield.value \o ")"
                   ELSE sfield.value
    IN  IF sfield.is_optional
        THEN "    " \o sfield.name \o ": Optional[" \o uatype \o "] = None"
        ELSE "    " \o sfield.name \o ":" \o uatype \o " = " \o uavalue

\* Struct.get_code, lines 91-109: the lines of the fields not named SwitchField
RECURSIVE fields_code(_)
fields_code(fields) ==
    IF fields = <<>> THEN <<>>
    ELSE (IF Head(fields).name # "SwitchField"
          THEN << field_code(Head(fields)) >> ELSE <<>>)
         \o fields_code(Tail(fields))

\* Struct.get_code: the text returned
struct_get_code(self) ==
    << "@dataclass", "class " \o self.name \o ":" >> \o
    fields_code(struct_fields_after_get_code(self))

\* element.get_code(): the text returned and the element after the call
get_code(element) ==
    IF element.kind = "Struct"
    THEN [code |-> struct_get_code(element),
          self |-> [element EXCEPT !.fields = struct_fields_after_get_code(element)]]
    ELSE [code |-> enum_get_code(element), self |-> element]

-----------------------------------------------------------------------------
(* Dynamic loading *)

\* the name a member line binds
member_name(line) == SubSeq(line, 1, find(line, "=") - 1)

\* exec(code, env) raises: an IntEnum body that binds a member name twice
exec_raises(code) ==
    /\ endswith(code[1], "(IntEnum):")
    /\ \E i, j \in 2..Len(code) :
            i # j /\ member_name(code[i]) = member_name(code[j])

\* the name the class statement of a definition binds
class_name(code) ==
    LET line == IF code[1] = "@dataclass" THEN code[2] ELSE code[1]
        stop == IF find(line, "(") # 0 THEN find(line, "(") ELSE find(line, ":")
    IN  SubSeq(line, 7, stop - 1)

\* exec that leaves a name alone once it is bound
exec_keeps_first(code, e) == e @@ (class_name(code) :> code)

\* exec(code, env) when it succeeds: the class is bound to its name
exec(code, e) == (class_name(code) :> code) @@ e

Library(n) == << "<" \o n \o ">" >>

Bind(e, present, names) ==
    IF present \in DOMAIN e THEN e
    ELSE [n \in names |-> Library(n)] @@ e

\* _generate_python_class, lines 307-323: the support entries
add_libraries(e) ==
    LET e1 == Bind(e,  "ua", {"ua"})
        e2 == Bind(e1, "datetime", {"datetime", "timezone"})
        e3 == Bind(e2, "uuid", {"uuid"})
        e4 == Bind(e3, "enum", {"IntEnum"})
        e5 == Bind(e4, "dataclass", {"dataclass"})
        e6 == Bind(e5, "field", {"field"})
        e7 == Bind(e6, "List", {"List"})
    IN  Bind(e7, "Optional", {"Optional"})

\* lines 325-331 with the exception logged and the loop going on
RECURSIVE generate_loop_keep_going(_, _, _)
generate_loop_keep_going(m, i, st) ==
    IF i > Len(m) THEN st
    ELSE LET r == get_code(m[i])
             st1 == [st EXCEPT !.model = [@ EXCEPT ![i] = r.self],
                               !.emitted = Append(@, r.code)]
         IN  IF exec_raises(r.code)
             THEN generate_loop_keep_going(m, i + 1, [st1 EXCEPT !.err = TRUE])
             ELSE generate_loop_keep_going(m, i + 1,
                        [st1 EXCEPT !.env = exec(r.code, @)])

\* _generate_python_class, lines 325-331: the elements one by one
RECURSIVE generate_loop(_, _, _)
generate_loop(m, i, st) ==
    IF i > Len(m) \/ st.err THEN st
    ELSE LET r == get_code(m[i])
             st1 == [st EXCEPT !.model = [@ EXCEPT ![i] = r.self],
                               !.emitted = Append(@, r.code)]
         IN  IF exec_raises(r.code)
             THEN [st1 EXCEPT !.err = TRUE]
             ELSE generate_loop(m, i + 1, [st1 EXCEPT !.env = exec(r.code, @)])

\* _generate_python_class(model, env)
generate_python_class(m, e) ==
    generate_loop(m, 1,
        [model |-> m, env |-> add_libraries(e), emitted |-> <<>>, err |-> FALSE])

-----------------------------------------------------------------------------
(* Static files *)

\* StructGenerator._make_header
make_header ==
    << "'''", "THIS FILE IS AUTOGENERATED, DO NOT EDIT!!!", "'''",
       "from datetime import datetime, timezone", "import uuid",
       "from dataclasses import dataclass, field",
       "from typing import List, Union, Optional",
       "from enum import IntEnum", "from asyncua import ua" >>

\* _make_registration without the test of line 209
make_registration_every_entry(m) ==
    [i \in 1..Len(m) |->
        "ua.register_extension_object('" \o m[i].name \o
        "', ua.NodeId.from_string('" \o m[i].typeid \o "'), " \o
        m[i].name \o ")"]

\* StructGenerator._make_registration
RECURSIVE make_registration(_)
make_registration(m) ==
    IF m = <<>> THEN <<>>
    ELSE (IF Head(m).kind = "EnumType" THEN <<>>
          ELSE << "ua.register_extension_object('" \o Head(m).name \o
                  "', ua.NodeId.from_string('" \o Head(m).typeid \o "'), " \o
                  Head(m).name \o ")" >>)
         \o make_registration(Tail(m))

\* StructGenerator.save_to_file, lines 200-201: get_code of every element
save_codes(m) == [i \in 1..Len(m) |-> get_code(m[i]).code]
save_model(m) == [i \in 1..Len(m) |-> get_code(m[i]).self]

-----------------------------------------------------------------------------
(* The generator used directly: one document, then any emission calls *)

ExecError == "ExecError"

\* the concurrent load_type_definitions calls
Calls == {1, 2}

\* the local state of a load_type_definitions call that has not started
NotCalled ==
    [pc |-> "idle", descs |-> <<>>, descIdx |-> 0, structs_dict |-> EmptyMap,
     generators |-> <<>>]

\* load_enums before it is called
NotLoadingEnums ==
    [pc |-> "idle", force |-> FALSE, env |-> None, descs |-> <<>>, idx |-> 0,
     props |-> <<>>, pidx |-> 0, c |-> <<>>, model |-> <<>>,
     ua_before |-> EmptyMap, browsed |-> <<>>, read |-> <<>>]

ParseError == "ParseError"

\* texts that are not well-formed XML, with the elements that are complete
\* before the point where the parser stops: a dictionary cut off before the
\* closing tag of its root
MalformedTexts == { [wellformed |-> FALSE, root |-> <<Color>>] }

\* ET.fromstring that returns the elements it could read
fromstring_recover(text) == [err |-> FALSE, root |-> text.root]

\* ET.fromstring(xml), line 132: the root element, or ParseError
fromstring(text) ==
    IF text.wellformed
    THEN [err |-> FALSE, root |-> text.root]
    ELSE [err |-> TRUE, root |-> <<>>]

InitLoad ==
    /\ pc = "idle"
    /\ nodes = 0
    /\ nodeIdx = 0
    /\ descs = <<>>
    /\ descIdx = 0
    /\ references = <<>>
    /\ structs_dict = EmptyMap
    /\ generators = <<>>
    /\ registry = EmptyMap
    /\ ua_ns = EmptyMap
    /\ co = [c \in Calls |-> NotCalled]
    /\ writes = <<>>
    /\ le = NotLoadingEnums

Init ==
    /\ xml \in Docs
    /\ texts = <<>>
    /\ parsed = FALSE
    /\ model = <<>>
    /\ raised = NoError
    /\ emitted = <<>>
    /\ file = <<>>
    /\ env = EmptyMap
    /\ calls = 0
    /\ InitLoad

\* StructGenerator.make_model_from_string(text): called once with the text
\* of xml, and at any time with a text that is not well-formed
make_model_from_string ==
    /\ \E text \in {[wellformed |-> TRUE, root |-> xml]} \cup MalformedTexts :
        /\ IF text.wellformed THEN ~parsed ELSE calls < MaxCalls
        /\ texts' = Append(texts, text)
        /\ parsed' = (parsed \/ text.wellformed)
        /\ calls' = IF text.wellformed THEN calls ELSE calls + 1
        /\ LET obj == fromstring(text)
               r   == make_model(model, obj.root)
           IN  IF obj.err
               THEN /\ model' = model
                    /\ raised' = ParseError
               ELSE /\ model' = r.model
                    /\ raised' = IF r.err THEN SchemaParseError ELSE NoError
    /\ UNCHANGED <<xml, emitted, file, env>>
    /\ UNCHANGED loadVars
    /\ UNCHANGED concVars
    /\ UNCHANGED le

\* StructGenerator.get_python_classes(env)
get_python_classes ==
    /\ parsed
    /\ calls < MaxCalls
    /\ LET r == generate_python_class(model, env)
       IN  /\ model' = r.model
           /\ env' = r.env
           /\ emitted' = r.emitted
           /\ raised' = IF r.err THEN ExecError ELSE NoError
    /\ calls' = calls + 1
    /\ UNCHANGED <<xml, texts, parsed, file>>
    /\ UNCHANGED loadVars
    /\ UNCHANGED concVars
    /\ UNCHANGED le

\* StructGenerator.save_to_file(path, register)
save_to_file ==
    /\ parsed
    /\ calls < MaxCalls
    /\ \E register \in BOOLEAN :
        file' = make_header \o Flatten(save_codes(model)) \o
                (IF register THEN make_registration(save_model(model)) ELSE <<>>)
    /\ emitted' = save_codes(model)
    /\ model' = save_model(model)
    /\ raised' = NoError
    /\ calls' = calls + 1
    /\ UNCHANGED <<xml, texts, parsed, env>>
    /\ UNCHANGED loadVars
    /\ UNCHANGED concVars
    /\ UNCHANGED le

Next ==
    \/ make_model_from_string
    \/ get_python_classes
    \/ save_to_file

Spec == Init /\ [][Next]_vars

-----------------------------------------------------------------------------
(* load_type_definitions: the coroutine, one action per await that returns *)

RemoteError == "RemoteError"

\* other definitions of the names Color and Shape
ColorV2 ==
    EnumeratedTypeElt("Color",
        << EnumeratedValueElt("Red", "1"), EnumeratedValueElt("Green", "2") >>)
ShapeV2 ==
    StructuredTypeElt("Shape", << FieldElt("Sides", "opc:Int32", "") >>)

\* what node.read_value() can return
NodeDocs ==
    { <<Color, Shape>>, <<Line>>, <<Color, Mode>>, <<Shape>>, <<ColorV2, ShapeV2>> }

\* browse names node.get_children_descriptions() can return
DescNames == {"Shape", "Color", "Ghost", "ua"}
DescLists == SeqsUpTo(DescNames, MaxDescs)

\* what get_references(HasDescription, Inverse) can return
RefLists == { <<>>, <<"ns=2;i=5001">>, <<"ns=2;i=5002", "ns=2;i=5001">> }

\* set_typeid without the name test of line 237
set_typeid_every_entry(m, name, typeid) ==
    [i \in 1..Len(m) |-> [m[i] EXCEPT !.typeid = typeid]]

\* StructGenerator.set_typeid
RECURSIVE set_typeid(_, _, _)
set_typeid(m, name, typeid) ==
    IF m = <<>> THEN <<>>
    ELSE IF Head(m).name = name
         THEN << [Head(m) EXCEPT !.typeid = typeid] >> \o Tail(m)
         ELSE << Head(m) >> \o set_typeid(Tail(m), name, typeid)

\* isinstance(val, EnumMeta)
is_enum_class(val) ==
    val = Library("IntEnum") \/ endswith(val[1], "(IntEnum):")

\* lines 290-292 with the key test of line 291 turned around
expose_enums_IntEnum_only(ns, dict, node) ==
    LET keys == {k \in DOMAIN dict : is_enum_class(dict[k]) /\ k = "IntEnum"}
    IN  [k \in keys |-> [class |-> dict[k], node |-> node]] @@ ns

\* load_type_definitions, lines 290-292: the enums of the type map set on ua
expose_enums(ns, dict, node) ==
    LET keys == {k \in DOMAIN dict : is_enum_class(dict[k]) /\ k # "IntEnum"}
    IN  [k \in keys |-> [class |-> dict[k], node |-> node]] @@ ns

\* the loop of line 259 catching the exception and going on to the next node
after_failure_next_node(i, n) ==
    IF i < n THEN [pc |-> "read_value", nodeIdx |-> i + 1]
             ELSE [pc |-> "returned", nodeIdx |-> i]

\* lines 259-292 hold no try: an exception raised while node i is processed
\* leaves the loop and the call
after_failure(i, n) == [pc |-> "raised", nodeIdx |-> i]

\* load_type_definitions(server, nodes): the call starts
load_type_definitions ==
    /\ pc = "idle"
    /\ \E n \in 0..MaxNodes :
        /\ nodes' = n
        /\ nodeIdx' = IF n = 0 THEN 0 ELSE 1
        /\ pc' = IF n = 0 THEN "returned" ELSE "read_value"
    /\ structs_dict' = EmptyMap
    /\ generators' = <<>>
    /\ UNCHANGED <<descs, descIdx, references, registry, ua_ns, raised>>
    /\ UNCHANGED <<xml, texts, parsed, model, emitted, file, env, calls>>
    /\ UNCHANGED concVars
    /\ UNCHANGED le

\* lines 260-265: read_value returns; the model is built and executed
read_value ==
    /\ pc = "read_value"
    /\ \E doc \in NodeDocs :
        LET m == make_model(<<>>, doc)
            g == generate_python_class(m.model, structs_dict)
        IN  IF m.err
            THEN /\ generators' = Append(generators, m.model)
                 /\ structs_dict' = structs_dict
                 /\ raised' = SchemaParseError
                 /\ pc' = after_failure(nodeIdx, nodes).pc
                 /\ nodeIdx' = after_failure(nodeIdx, nodes).nodeIdx
            ELSE /\ generators' = Append(generators, g.model)
                 /\ structs_dict' = g.env
                 /\ raised' = IF g.err THEN ExecError ELSE NoError
                 /\ pc' = IF g.err THEN after_failure(nodeIdx, nodes).pc
                                   ELSE "get_children_descriptions"
                 /\ nodeIdx' = IF g.err THEN after_failure(nodeIdx, nodes).nodeIdx
                                        ELSE nodeIdx
    /\ UNCHANGED <<nodes, descs, descIdx, references, registry, ua_ns>>
    /\ UNCHANGED <<xml, texts, parsed, model, emitted, file, env, calls>>
    /\ UNCHANGED concVars
    /\ UNCHANGED le

\* lines 290-292 and the head of the loop at line 259: the node is done
NodeDone(dict) ==
    /\ ua_ns' = expose_enums(ua_ns, dict, nodeIdx)
    /\ IF nodeIdx < nodes
       THEN /\ nodeIdx' = nodeIdx + 1
            /\ pc' = "read_value"
       ELSE /\ nodeIdx' = nodeIdx
            /\ pc' = "returned"

\* line 275: get_children_descriptions returns
get_children_descriptions ==
    /\ pc = "get_children_descriptions"
    /\ \E ds \in DescLists :
        /\ descs' = ds
        /\ references' = <<>>
        /\ IF ds = <<>>
           THEN /\ descIdx' = 0
                /\ NodeDone(structs_dict)
           ELSE /\ descIdx' = 1
                /\ pc' = "get_references"
                /\ UNCHANGED <<nodeIdx, ua_ns>>
    /\ UNCHANGED <<nodes, structs_dict, generators, registry, raised>>
    /\ UNCHANGED <<xml, texts, parsed, model, emitted, file, env, calls>>
    /\ UNCHANGED concVars
    /\ UNCHANGED le

\* lines 280-284: the descriptor is bound: it has a back-reference and its
\* name is in the type map
is_bound(refs, name, dict) == refs # <<>> /\ name \in DOMAIN dict

\* the loop of line 275 stopped by a mismatch: break for continue at line 284
more_descriptors_break(i, ds, mismatch) == i < Len(ds) /\ ~mismatch

\* line 275 and the continue of line 284: the loop goes on to the next
\* descriptor, whether or not this one was a mismatch
more_descriptors(i, ds, mismatch) == i < Len(ds)

\* lines 277-288: get_references returns for descriptor descIdx
get_references ==
    /\ pc = "get_references"
    /\ \E refs \in RefLists :
        LET name == clean_name(descs[descIdx])
        IN  /\ references' = Append(references, refs)
            /\ IF is_bound(refs, name, structs_dict)
               THEN /\ registry' = Append(registry,
                            [name |-> name, nodeid |-> refs[1],
                             class |-> structs_dict[name], node |-> nodeIdx])
                    /\ generators' =
                            [generators EXCEPT ![Len(generators)] =
                                set_typeid(@, name, refs[1])]
               ELSE UNCHANGED <<registry, generators>>
            /\ IF more_descriptors(descIdx, descs,
                        refs # <<>> /\ name \notin DOMAIN structs_dict)
               THEN /\ descIdx' = descIdx + 1
                    /\ UNCHANGED <<pc, nodeIdx, ua_ns>>
               ELSE /\ descIdx' = descIdx
                    /\ NodeDone(structs_dict)
    /\ UNCHANGED <<nodes, descs, structs_dict, raised>>
    /\ UNCHANGED <<xml, texts, parsed, model, emitted, file, env, calls>>
    /\ UNCHANGED concVars
    /\ UNCHANGED le

\* an awaited remote call raises instead of returning
remote_call_fails ==
    /\ pc \in {"read_value", "get_children_descriptions", "get_references"}
    /\ pc' = after_failure(nodeIdx, nodes).pc
    /\ nodeIdx' = after_failure(nodeIdx, nodes).nodeIdx
    /\ raised' = RemoteError
    /\ UNCHANGED <<nodes, descs, descIdx, references, structs_dict,
                   generators, registry, ua_ns>>
    /\ UNCHANGED <<xml, texts, parsed, model, emitted, file, env, calls>>
    /\ UNCHANGED concVars
    /\ UNCHANGED le

\* the caller saves the first generator returned, as _uageneratestructs
\* does: generators[0].save_to_file(path, True)
generator_save_to_file ==
    /\ pc = "returned"
    /\ generators # <<>>
    /\ file' = make_header \o Flatten(save_codes(generators[1])) \o
               make_registration(save_model(generators[1]))
    /\ pc' = "saved"
    /\ emitted' = save_codes(generators[1])
    /\ model' = save_model(generators[1])
    /\ generators' = [generators EXCEPT ![1] = save_model(@)]
    /\ UNCHANGED <<nodes, nodeIdx, descs, descIdx, references, structs_dict,
                   registry, ua_ns, raised>>
    /\ UNCHANGED <<xml, texts, parsed, env, calls>>
    /\ UNCHANGED concVars
    /\ UNCHANGED le

InitLoadSpec ==
    /\ xml = <<>>
    /\ texts = <<>>
    /\ parsed = FALSE
    /\ model = <<>>
    /\ raised = NoError
    /\ emitted = <<>>
    /\ file = <<>>
    /\ env = EmptyMap
    /\ calls = 0
    /\ InitLoad

NextLoad ==
    \/ load_type_definitions
    \/ read_value
    \/ get_children_descriptions
    \/ get_references
    \/ remote_call_fails
    \/ generator_save_to_file

SpecLoad == InitLoadSpec /\ [][NextLoad]_vars

-----------------------------------------------------------------------------
(* Two load_type_definitions calls on one event loop. Each call is made    *)
(* with one node, as _uageneratestructs makes it; a coroutine runs from    *)
(* one await to the next without interruption, and at an await the other   *)
(* coroutine may run. The registry and the ua namespace are shared.        *)

\* what node.read_value() can return to the concurrent calls
ConcDocs == { <<Color, Shape>>, <<ColorV2, ShapeV2>> }

\* what get_children_descriptions() can return to the concurrent calls
ConcDescLists == { <<>>, <<"Shape">>, <<"Shape", "Color">> }

\* the shared-state writes of one step of call c
register_write(c) ==
    [call |-> c, node |-> 1, write |-> "register_extension_object"]
setattr_write(c) == [call |-> c, node |-> 1, write |-> "setattr"]

\* lines 290-292 in call c: the writes to ua, logged when there is one
co_expose(c, dict, before) ==
    /\ ua_ns' = expose_enums(ua_ns, dict, c)
    /\ writes' = IF \E k \in DOMAIN dict : is_enum_class(dict[k]) /\ k # "IntEnum"
                 THEN Append(before, setattr_write(c))
                 ELSE before

\* load_type_definitions(server, [node]) is called
co_load_type_definitions(c) ==
    /\ co[c].pc = "idle"
    /\ co' = [co EXCEPT ![c].pc = "read_value"]
    /\ UNCHANGED <<registry, ua_ns, writes>>
    /\ UNCHANGED genVars
    /\ UNCHANGED le
    /\ UNCHANGED <<pc, nodes, nodeIdx, descs, descIdx, references,
                   structs_dict, generators>>

\* lines 260-265 in call c
co_read_value(c) ==
    /\ co[c].pc = "read_value"
    /\ \E doc \in ConcDocs :
        LET m == make_model(<<>>, doc)
            g == generate_python_class(m.model, co[c].structs_dict)
        IN  co' = [co EXCEPT
                    ![c].generators = Append(@, IF m.err THEN m.model ELSE g.model),
                    ![c].structs_dict = IF m.err THEN @ ELSE g.env,
                    ![c].pc = IF m.err \/ g.err THEN "raised"
                              ELSE "get_children_descriptions"]
    /\ UNCHANGED <<registry, ua_ns, writes>>
    /\ UNCHANGED genVars
    /\ UNCHANGED le
    /\ UNCHANGED <<pc, nodes, nodeIdx, descs, descIdx, references,
                   structs_dict, generators>>

\* line 275 in call c
co_get_children_descriptions(c) ==
    /\ co[c].pc = "get_children_descriptions"
    /\ \E ds \in ConcDescLists :
        IF ds = <<>>
        THEN /\ co' = [co EXCEPT ![c].descs = ds, ![c].pc = "returned"]
             /\ co_expose(c, co[c].structs_dict, writes)
        ELSE /\ co' = [co EXCEPT ![c].descs = ds, ![c].descIdx = 1,
                                 ![c].pc = "get_references"]
             /\ UNCHANGED <<ua_ns, writes>>
    /\ UNCHANGED registry
    /\ UNCHANGED genVars
    /\ UNCHANGED le
    /\ UNCHANGED <<pc, nodes, nodeIdx, descs, descIdx, references,
                   structs_dict, generators>>

\* lines 277-292 in call c
co_get_references(c) ==
    /\ co[c].pc = "get_references"
    /\ \E refs \in RefLists :
        LET self   == co[c]
            name   == clean_name(self.descs[self.descIdx])
            bound  == is_bound(refs, name, self.structs_dict)
            more   == more_descriptors(self.descIdx, self.descs,
                          refs # <<>> /\ name \notin DOMAIN self.structs_dict)
            logged == IF bound THEN Append(writes, register_write(c)) ELSE writes
        IN  /\ registry' =
                    IF bound
                    THEN Append(registry,
                            [name |-> name, nodeid |-> refs[1],
                             class |-> self.structs_dict[name], node |-> c])
                    ELSE registry
            /\ co' = [co EXCEPT
                        ![c].generators =
                            IF bound
                            THEN [@ EXCEPT ![Len(@)] = set_typeid(@, name, refs[1])]
                            ELSE @,
                        ![c].descIdx = IF more THEN @ + 1 ELSE @,
                        ![c].pc = IF more THEN @ ELSE "returned"]
            /\ IF more
               THEN /\ writes' = logged
                    /\ UNCHANGED ua_ns
               ELSE co_expose(c, self.structs_dict, logged)
    /\ UNCHANGED genVars
    /\ UNCHANGED le
    /\ UNCHANGED <<pc, nodes, nodeIdx, descs, descIdx, references,
                   structs_dict, generators>>

\* an awaited remote call of call c raises instead of returning
co_remote_call_fails(c) ==
    /\ co[c].pc \in {"read_value", "get_children_descriptions", "get_references"}
    /\ co' = [co EXCEPT ![c].pc = "raised"]
    /\ UNCHANGED <<registry, ua_ns, writes>>
    /\ UNCHANGED genVars
    /\ UNCHANGED le
    /\ UNCHANGED <<pc, nodes, nodeIdx, descs, descIdx, references,
                   structs_dict, generators>>

NextConc ==
    \/ \E c \in Calls : co_load_type_definitions(c)
    \/ \E c \in Calls : co_read_value(c)
    \/ \E c \in Calls : co_get_children_descriptions(c)
    \/ \E c \in Calls : co_get_references(c)
    \/ \E c \in Calls : co_remote_call_fails(c)

SpecConc == InitLoadSpec /\ [][NextConc]_vars

-----------------------------------------------------------------------------
(* load_enums: the coroutine, one action per await that returns *)

\* browse names of the subtypes of the enumeration data type
EnumTypeNames == {"Color", "Status"}
EnumDescLists == SeqsUpTo(EnumTypeNames, MaxEnums)

\* browse names of the properties of an enumeration data type
PropLists ==
    { <<>>, <<"EnumStrings">>, <<"EnumValues">>,
      <<"EnumStrings", "EnumValues">>, <<"Description", "EnumStrings">> }

\* values of an EnumStrings property: LocalizedTexts, by their Text
EnumStringsValues ==
    { <<"Red", "Green", "Blue">>, <<"None", "Not Set">>, <<"On", "On">> }

\* values of an EnumValues property: EnumValueTypes, with DisplayName.Text
EnumValuesValues ==
    { << [DisplayName |-> "Low", Value |-> 1],
         [DisplayName |-> "High", Value |-> 5] >> }

\* the class bound to Color in ua before load_enums is called
OldColor == << "class Color(IntEnum):", "    Old = 0" >>

\* the ua namespace load_enums can find
UaBefore == { EmptyMap, "Color" :> [class |-> OldColor, node |-> 0] }

\* line 344 without the hasattr test
already_known_never(force, ns, enum_name) == FALSE

\* line 344: not force and hasattr(ua, enum_name)
already_known(force, ns, enum_name) == ~force /\ enum_name \in DOMAIN ns

\* lines 341-346: the next descriptor that is not skipped, from index i on
RECURSIVE next_enum(_, _, _, _)
next_enum(ds, i, force, ns) ==
    IF i > Len(ds) THEN i
    ELSE IF already_known(force, ns, ds[i])
         THEN next_enum(ds, i + 1, force, ns)
         ELSE i

\* lines 350-355: the next property that is read, from index j on
RECURSIVE next_prop(_, _)
next_prop(ps, j) ==
    IF j > Len(ps) THEN j
    ELSE IF ps[j] \in {"EnumStrings", "EnumValues"} THEN j
         ELSE next_prop(ps, j + 1)

\* _get_enum_strings with the index counted from one
get_enum_strings_from_one(name, val) ==
    [EnumType(name) EXCEPT
        !.fields = [i \in 1..Len(val) |-> EnumeratedValue(val[i], ToString(i))]]

\* _get_enum_strings once read_value has returned val; the integer value
\* is kept as the text get_code formats it to
get_enum_strings(name, val) ==
    [EnumType(name) EXCEPT
        !.fields = [i \in 1..Len(val) |->
                        EnumeratedValue(val[i], ToString(i - 1))]]

\* _get_enum_values once read_value has returned val
get_enum_values(name, val) ==
    [EnumType(name) EXCEPT
        !.fields = [i \in 1..Len(val) |->
                        EnumeratedValue(val[i].DisplayName,
                                        ToString(val[i].Value))]]

\* lines 341-347: the loop goes to descriptor j, or ends
enter_enum(l, j) ==
    IF j > Len(l.descs)
    THEN [l EXCEPT !.idx = j, !.pc = "generate"]
    ELSE [l EXCEPT !.idx = j, !.pc = "get_properties", !.c = <<>>]

\* lines 356-357 and the head of the loop: the properties of a descriptor
\* are done
end_of_enum(l, ns) ==
    enter_enum([l EXCEPT !.model = IF l.c # <<>> THEN Append(@, l.c[1]) ELSE @],
               next_enum(l.descs, l.idx + 1, l.force, ns))

\* the coroutine goes on from l up to its next await; line 358 when the
\* loop has ended: the model is generated in env, or in ua without one
le_proceed(l) ==
    IF l.pc # "generate"
    THEN /\ le' = l
         /\ UNCHANGED <<ua_ns, env, raised>>
    ELSE LET target == IF l.env = None
                       THEN [k \in DOMAIN ua_ns |-> ua_ns[k].class]
                       ELSE env
             g == generate_python_class(l.model, target)
         IN  /\ le' = [l EXCEPT !.model = g.model,
                                !.pc = IF g.err THEN "raised" ELSE "returned"]
             /\ raised' = IF g.err THEN ExecError ELSE NoError
             /\ IF l.env = None
                THEN /\ ua_ns' =
                            [k \in DOMAIN g.env |->
                                IF k \in DOMAIN ua_ns /\ ua_ns[k].class = g.env[k]
                                THEN ua_ns[k]
                                ELSE [class |-> g.env[k], node |-> 0]]
                     /\ env' = env
                ELSE /\ env' = g.env
                     /\ ua_ns' = ua_ns

\* load_enums(server, env, force) is called
load_enums ==
    /\ le.pc = "idle"
    /\ \E force \in BOOLEAN, e \in {None, "env"} :
        le' = [le EXCEPT !.pc = "get_enum_types", !.force = force, !.env = e,
                         !.ua_before = ua_ns]
    /\ UNCHANGED <<ua_ns, env, raised>>
    /\ UNCHANGED enumFrame

\* line 341: get_children_descriptions(HasSubtype) returns
le_get_enum_types ==
    /\ le.pc = "get_enum_types"
    /\ \E ds \in EnumDescLists :
        le_proceed(enter_enum([le EXCEPT !.descs = ds],
                              next_enum(ds, 1, le.force, ua_ns)))
    /\ UNCHANGED enumFrame

\* line 348: get_children_descriptions(HasProperty) returns
le_get_properties ==
    /\ le.pc = "get_properties"
    /\ \E ps \in PropLists :
        LET j == next_prop(ps, 1)
            l == [le EXCEPT !.props = ps, !.pidx = j,
                            !.browsed = Append(@, le.descs[le.idx])]
        IN  IF j > Len(ps)
            THEN le_proceed(end_of_enum(l, ua_ns))
            ELSE le_proceed([l EXCEPT !.pc = "read_value"])
    /\ UNCHANGED enumFrame

\* lines 362 and 369: read_value returns in _get_enum_values or
\* _get_enum_strings
le_read_value ==
    /\ le.pc = "read_value"
    /\ LET prop == le.props[le.pidx]
           name == le.descs[le.idx]
       IN  \E val \in (IF prop = "EnumStrings" THEN EnumStringsValues
                                                ELSE EnumValuesValues) :
            LET c == IF prop = "EnumStrings"
                     THEN get_enum_strings(name, val)
                     ELSE get_enum_values(name, val)
                j == next_prop(le.props, le.pidx + 1)
                l == [le EXCEPT !.c = <<c>>, !.pidx = j,
                                !.read = Append(@, [enum_name |-> name,
                                                    prop |-> prop,
                                                    val |-> val, c |-> c])]
            IN  IF j > Len(le.props)
                THEN le_proceed(end_of_enum(l, ua_ns))
                ELSE le_proceed(l)
    /\ UNCHANGED enumFrame

\* an awaited remote call of load_enums raises instead of returning
le_remote_call_fails ==
    /\ le.pc \in {"get_enum_types", "get_properties", "read_value"}
    /\ le' = [le EXCEPT !.pc = "raised"]
    /\ raised' = RemoteError
    /\ UNCHANGED <<ua_ns, env>>
    /\ UNCHANGED enumFrame

InitEnums ==
    /\ xml = <<>>
    /\ texts = <<>>
    /\ parsed = FALSE
    /\ model = <<>>
    /\ raised = NoError
    /\ emitted = <<>>
    /\ file = <<>>
    /\ env = EmptyMap
    /\ calls = 0
    /\ pc = "idle"
    /\ nodes = 0
    /\ nodeIdx = 0
    /\ descs = <<>>
    /\ descIdx = 0
    /\ references = <<>>
    /\ structs_dict = EmptyMap
    /\ generators = <<>>
    /\ registry = EmptyMap
    /\ ua_ns \in UaBefore
    /\ co = [c \in Calls |-> NotCalled]
    /\ writes = <<>>
    /\ le = NotLoadingEnums

NextEnums ==
    \/ load_enums
    \/ le_get_enum_types
    \/ le_get_properties
    \/ le_read_value
    \/ le_remote_call_fails

SpecEnums == InitEnums /\ [][NextEnums]_vars

-----------------------------------------------------------------------------
(* Vocabulary of the properties: what a document declares *)

IsEnumDecl(d)   == endswith(d.tag, "EnumeratedType")
IsStructDecl(d) == endswith(d.tag, "StructuredType")
IsFieldDecl(x)  == endswith(x.tag, "Field")
IsValueDecl(x)  == endswith(x.tag, "EnumeratedValue")

StructDecls(doc) == SelectSeq(doc, IsStructDecl)
EnumDecls(doc)   == SelectSeq(doc, IsEnumDecl)
ModelStructs(m)  == SelectSeq(m, LAMBDA e : e.kind = "Struct")
DeclaredFields(decl) == SelectSeq(decl.children, IsFieldDecl)
DeclaredValues(decl) == SelectSeq(decl.children, IsValueDecl)

\* the three array-length marker conventions
MarkerName(n) ==
    \/ Len(n) >= 4 /\ SubSeq(n, 1, 4) = "NoOf"
    \/ Len(n) >= 8 /\ SubSeq(n, 1, 2) = "__" /\ SubSeq(n, Len(n) - 5, Len(n)) = "Length"
    \/ Len(n) >= 1 /\ SubSeq(n, 1, 1) = "#"

\* the local part of a type name, after any namespace prefix
AfterPrefix(t) ==
    IF find(t, ":") = 0 THEN t ELSE SubSeq(t, find(t, ":") + 1, Len(t))

IsBitDecl(f) == AfterPrefix(f.TypeName) = "Bit"

\* the declarations that become fields
Kept(f) == ~MarkerName(f.Name) /\ ~IsBitDecl(f)
Materialized(decl) == SelectSeq(DeclaredFields(decl), Kept)

Primitives ==
    Numbers \cup {"Boolean", "String", "Char", "CharArray", "ByteString",
                  "DateTime", "Guid"}

\* the enumerated types of a document that declare a value
EnumNames(doc) ==
    {doc[i].Name : i \in {j \in 1..Len(doc) :
                            IsEnumDecl(doc[j]) /\ DeclaredValues(doc[j]) # <<>>}}

Resolved(f, doc) == AfterPrefix(f.TypeName) \in Primitives \cup EnumNames(doc)

\* every declaration that becomes a field has a known type
Resolvable(doc) ==
    \A i \in 1..Len(doc) :
        IsStructDecl(doc[i]) =>
            \A j \in 1..Len(Materialized(doc[i])) :
                Resolved(Materialized(doc[i])[j], doc)

\* the state right after make_model_from_string
Built == parsed /\ calls = 0

\* the lines of a struct definition after the class line
FieldLines(code) == SubSeq(code, 3, Len(code))

IsEncodingLine(line) == startswith(line, "    Encoding:")

-----------------------------------------------------------------------------
(* Properties *)

\* C1: whatever get_python_classes / save_to_file calls were made on the
\* generator, the definition emitted for a struct with option_counter > 0
\* begins with exactly one Encoding field of type UInt32 and has no second
\* Encoding line.
C1_OneEncodingField ==
    \A i \in 1..Len(emitted) :
        (model[i].kind = "Struct" /\ model[i].option_counter > 0) =>
            LET lines == FieldLines(emitted[i])
            IN  /\ Len(lines) >= 1
                /\ startswith(lines[1], "    Encoding:'ua.UInt32'")
                /\ \A j \in 2..Len(lines) : ~IsEncodingLine(lines[j])

\* C2: when executing a definition fails in _generate_python_class, the
\* target namespace holds none of the types of that model afterwards: every
\* name of the model is bound as it was before the call (the support entries
\* the loader adds left aside).
C2_FailedLoadCommitsNothing ==
    [][raised' = ExecError =>
        \A i \in 1..Len(model) :
            LET n == model[i].name
            IN  n \in DOMAIN env' => (n \in DOMAIN env /\ env'[n] = env[n])]_vars

\* C3: when a remote call fails while a node is processed, none of the types
\* of that node's document has been registered as an extension object or
\* set on the ua namespace for that node.
C3_FailedNodeCommitsNothing ==
    (pc = "raised" /\ raised = RemoteError) =>
        LET g     == IF Len(generators) = nodeIdx THEN generators[nodeIdx] ELSE <<>>
            types == {g[k].name : k \in 1..Len(g)}
        IN  /\ \A i \in 1..Len(registry) :
                    ~(registry[i].node = nodeIdx /\ registry[i].name \in types)
            /\ \A k \in DOMAIN ua_ns :
                    ~(ua_ns[k].node = nodeIdx /\ k \in types)

\* every field of every struct of the model has a primitive type or the type
\* of an enum of the model
NoUnresolvedField ==
    \A i \in 1..Len(model) :
        model[i].kind = "Struct" =>
            \A j \in 1..Len(model[i].fields) :
                model[i].fields[j].uatype \in
                    Primitives \cup
                    {model[k].name : k \in {n \in 1..Len(model) :
                                              model[n].kind = "EnumType"}}

KeptAt(fs) == {j \in 1..Len(fs) : Kept(fs[j])}
\* the position of the k-th of them
NthKept(fs, k) ==
    CHOOSE j \in KeptAt(fs) : Cardinality({i \in KeptAt(fs) : i < j}) = k - 1
\* a marker stands before position j with no materialized field in between
MarkerPending(fs, j) ==
    \E m \in 1..(j - 1) :
        /\ MarkerName(fs[m].Name)
        /\ \A i \in (m + 1)..(j - 1) : i \notin KeptAt(fs)

\* C5: a field whose name matches a marker convention is never
\* materialized; the next materialized field of the struct is an array with
\* the empty-sequence default; later fields are arrays only after a marker of
\* their own.
C5_MarkerMakesNextFieldArray ==
    (Built /\ Resolvable(xml)) =>
        /\ raised = NoError
        /\ Len(ModelStructs(model)) = Len(StructDecls(xml))
        /\ \A k \in 1..Len(StructDecls(xml)) :
            LET fs     == DeclaredFields(StructDecls(xml)[k])
                fields == ModelStructs(model)[k].fields
            IN  /\ Len(fields) = Cardinality(KeptAt(fs))
                /\ \A i \in 1..Len(fields) :
                    /\ ~MarkerName(fields[i].name)
                    /\ fields[i].array = MarkerPending(fs, NthKept(fs, i))
                    /\ fields[i].array =>
                            fields[i].value = "field(default_factory=list)"
                    /\ ~fields[i].array =>
                            fields[i].value # "field(default_factory=list)"

C5_Witness ==
    /\ Built
    /\ raised = NoError
    /\ \E k \in 1..Len(StructDecls(xml)) :
        LET fs     == DeclaredFields(StructDecls(xml)[k])
            fields == ModelStructs(model)[k].fields
        IN  /\ Len(fs) = 3
            /\ MarkerName(fs[1].Name)
            /\ Len(fields) = 2
            /\ fields[1].array
            /\ ~fields[2].array

\* C6: a declared field whose local type is Bit is never materialized: no
\* field of the model has type Bit, a struct has as many fields as it
\* declares minus the markers minus the Bit fields, and a Bit field with a
\* switch-field marker does not count as an optional field.
C6_BitFieldsDropped ==
    (Built /\ Resolvable(xml)) =>
        /\ raised = NoError
        /\ Len(ModelStructs(model)) = Len(StructDecls(xml))
        /\ \A k \in 1..Len(StructDecls(xml)) :
            LET fs     == DeclaredFields(StructDecls(xml)[k])
                struct == ModelStructs(model)[k]
                marks  == {j \in 1..Len(fs) : MarkerName(fs[j].Name)}
                bits   == {j \in 1..Len(fs) : IsBitDecl(fs[j])} \ marks
            IN  /\ \A i \in 1..Len(struct.fields) : struct.fields[i].uatype # "Bit"
                /\ Len(struct.fields) =
                        Len(fs) - Cardinality(marks) - Cardinality(bits)
                /\ struct.option_counter =
                        Cardinality({j \in 1..Len(fs) \ (marks \cup bits) :
                                        fs[j].SwitchField # ""})

C6_Witness ==
    /\ Built
    /\ raised = NoError
    /\ \E k \in 1..Len(StructDecls(xml)) :
        LET fs == DeclaredFields(StructDecls(xml)[k])
        IN  /\ \E j \in 1..Len(fs) : IsBitDecl(fs[j]) /\ fs[j].SwitchField # ""
            /\ ModelStructs(model)[k].option_counter = 0
            /\ Len(ModelStructs(model)[k].fields) = 1

\* C7: after _make_model a materialized field is optional exactly when its
\* declaration has a non-empty SwitchField attribute, and the option_counter
\* of a struct is the number of its optional fields.
C7_OptionalIffSwitchField ==
    /\ (Built /\ Resolvable(xml)) =>
          \A k \in 1..Len(StructDecls(xml)) :
            LET decls  == Materialized(StructDecls(xml)[k])
                fields == ModelStructs(model)[k].fields
            IN  /\ Len(fields) = Len(decls)
                /\ \A i \in 1..Len(fields) :
                        fields[i].is_optional = (decls[i].SwitchField # "")
    /\ \A i \in 1..Len(model) :
          model[i].kind = "Struct" =>
            model[i].option_counter =
                Cardinality({j \in 1..Len(model[i].fields) :
                                model[i].fields[j].is_optional})

C7_Witness ==
    /\ Built
    /\ raised = NoError
    /\ \E i \in 1..Len(model) :
        /\ model[i].kind = "Struct"
        /\ model[i].option_counter = 1
        /\ Len(model[i].fields) = 2

\* C8: the field list of a modeled struct is the declared field sequence
\* without the marker and Bit fields, in declaration order, and the emitted
\* definition lists the fields (all but the SwitchField placeholder) in that
\* order after the optional Encoding prefix.
C8_FieldOrderPreserved ==
    (parsed /\ Resolvable(xml)) =>
        \A k \in 1..Len(StructDecls(xml)) :
            LET decls  == Materialized(StructDecls(xml)[k])
                shown  == SelectSeq(decls, LAMBDA f : f.Name # "SwitchField")
                at     == Len(EnumDecls(xml)) + k
                struct == model[at]
                lines  == FieldLines(emitted[at])
                body   == IF struct.option_counter > 0 /\ lines # <<>>
                          THEN Tail(lines) ELSE lines
            IN  /\ Len(struct.fields) = Len(decls)
                /\ \A i \in 1..Len(decls) :
                        struct.fields[i].name = clean_name(decls[i].Name)
                /\ at <= Len(emitted) =>
                    /\ Len(body) = Len(shown)
                    /\ \A i \in 1..Len(shown) :
                        startswith(body[i],
                                   "    " \o clean_name(shown[i].Name) \o ":")

\* C9: in every model every EnumType of the document is at a lower index
\* than every Struct of the document, however the document interleaves them.
C9_EnumsBeforeStructs ==
    \A i, j \in 1..Len(model) :
        (model[i].kind = "EnumType" /\ model[j].kind = "Struct") => i < j

C9_Witness ==
    /\ Built
    /\ Len(xml) = 2
    /\ IsStructDecl(xml[1])
    /\ IsEnumDecl(xml[2])
    /\ Len(model) = 2
    /\ model[1].kind = "EnumType"
    /\ model[2].kind = "Struct"

\* C10: a struct field whose type is an enum of the document gets a default
\* constructed from the first declared member of that enum.
C10_EnumDefaultIsFirstMember ==
    Built =>
        \A i \in 1..Len(model) :
            model[i].kind = "Struct" =>
                \A j \in 1..Len(model[i].fields) :
                    \A e \in 1..Len(xml) :
                        LET f == model[i].fields[j]
                        IN  (/\ IsEnumDecl(xml[e])
                             /\ DeclaredValues(xml[e]) # <<>>
                             /\ f.uatype = xml[e].Name
                             /\ ~f.array) =>
                                f.value = "ua." \o xml[e].Name \o "(" \o
                                          DeclaredValues(xml[e])[1].Value \o ")"

\* the first entry of a model with the given name has the given typeid
TypeidSet(m, name, typeid) ==
    \A i \in 1..Len(m) :
        (m[i].name = name /\ \A j \in 1..(i - 1) : m[j].name # name) =>
            m[i].typeid = typeid

\* C11: in the registration loop a descriptor with a back-reference whose
\* cleaned name is not in the type map is skipped without raising (nothing
\* is registered, no typeid is set, the loop goes on to the next descriptor),
\* and a descriptor with a back-reference and a name of the type map is
\* registered and its typeid is set.
C11_MismatchSkippedOthersBound ==
    [][(pc = "get_references" /\ pc' # "raised" /\ references'[descIdx] # <<>>) =>
        LET name == clean_name(descs[descIdx])
            nodeid == references'[descIdx][1]
        IN  IF name \notin DOMAIN structs_dict
            THEN /\ registry' = registry
                 /\ generators' = generators
                 /\ raised' = raised
                 /\ descIdx < Len(descs) =>
                        (pc' = "get_references" /\ descIdx' = descIdx + 1)
            ELSE /\ Len(registry') = Len(registry) + 1
                 /\ registry'[Len(registry')].name = name
                 /\ registry'[Len(registry')].nodeid = nodeid
                 /\ TypeidSet(generators'[Len(generators')], name, nodeid)
                 /\ descIdx < Len(descs) =>
                        (pc' = "get_references" /\ descIdx' = descIdx + 1)]_vars

\* a mismatch (Ghost) was skipped and the descriptor after it was bound
C11_Witness ==
    /\ pc \in {"read_value", "returned"}
    /\ raised = NoError
    /\ Len(descs) = 2
    /\ Len(references) = 2
    /\ references[1] # <<>>
    /\ clean_name(descs[1]) \notin DOMAIN structs_dict
    /\ Len(registry) = 1
    /\ registry[1].name = descs[2]
    /\ \E i \in 1..Len(generators[1]) :
            /\ generators[1][i].name = descs[2]
            /\ generators[1][i].typeid = registry[1].nodeid

\* C12: a model entry has a typeid only if register_extension_object was
\* called, while its node was processed, for the entry's name with that
\* identifier, and the identifier is the first HasDescription back-reference
\* of a child descriptor of that name.
C12_TypeidOnlyAfterRegistration ==
    \A g \in 1..Len(generators) :
        \A i \in 1..Len(generators[g]) :
            LET entry == generators[g][i]
            IN  entry.typeid # None =>
                  /\ \E r \in 1..Len(registry) :
                        /\ registry[r].node = g
                        /\ registry[r].name = entry.name
                        /\ registry[r].nodeid = entry.typeid
                  /\ g = nodeIdx =>
                        \E d \in 1..Len(references) :
                            /\ clean_name(descs[d]) = entry.name
                            /\ references[d] # <<>>
                            /\ references[d][1] = entry.typeid

\* one entry of a model of two has its typeid, the other has none
C12_Witness ==
    /\ pc = "returned"
    /\ \E g \in 1..Len(generators) :
        /\ Len(generators[g]) = 2
        /\ generators[g][1].typeid = None
        /\ generators[g][2].typeid # None
        /\ Len(registry) = 1

\* C13: a child descriptor of a node is registered as an extension object
\* only when its name is a type generated from that node's own document; a
\* name the map holds from an earlier document or as a support entry is
\* skipped.
C13_OnlyOwnTypesRegistered ==
    \A r \in 1..Len(registry) :
        LET own == generators[registry[r].node]
        IN  registry[r].name \in {own[i].name : i \in 1..Len(own)}

\* the step ends the binding loop of the node being processed
BindingLoopEnds ==
    \/ pc = "get_references" /\ descIdx = Len(descs) /\ pc' # "raised"
    \/ pc = "get_children_descriptions" /\ descs' = <<>> /\ pc' # "raised"

\* C14: the enums of a node are set on the ua namespace only once the
\* binding loop of the node has finished, and when a node is done (so when
\* the call returns) every enum type generated from every document
\* processed is an attribute of ua under its name.
C14_EnumsExposedAfterBinding ==
    [][/\ ua_ns' # ua_ns => BindingLoopEnds
       /\ BindingLoopEnds =>
            \A g \in 1..Len(generators') :
                \A i \in 1..Len(generators'[g]) :
                    generators'[g][i].kind = "EnumType" =>
                        /\ generators'[g][i].name \in DOMAIN ua_ns'
                        /\ endswith(ua_ns'[generators'[g][i].name].class[1],
                                    "(IntEnum):")]_vars

\* a call over two nodes has returned, with a binding made and Color on ua
C14_Witness ==
    /\ pc = "returned"
    /\ nodes = 2
    /\ Len(registry) >= 1
    /\ "Color" \in DOMAIN ua_ns
    /\ ua_ns["Color"].node = 2

\* the definition a model entry was last emitted as
ClassText(entry) ==
    IF entry.kind = "Struct"
    THEN << "@dataclass", "class " \o entry.name \o ":" >> \o
         fields_code(entry.fields)
    ELSE enum_get_code(entry)

\* the entries named n of the documents loaded so far, in load order
Definitions(n) ==
    Flatten([g \in 1..Len(generators) |->
                SelectSeq(generators[g], LAMBDA e : e.name = n)])

\* C15: when documents loaded one after the other define a type of the same
\* name, no error is raised and the type map holds the type generated from
\* the later document; for an enum so does the ua namespace once the call
\* has returned.
\* the elements of a sequence
Range(seq) == { seq[i] : i \in 1..Len(seq) }

\* an enum entry two of whose members have the same sanitized name: the
\* only definition of the pools whose execution fails
RepeatsMember(e) ==
    /\ e.kind = "EnumType"
    /\ \E i, j \in 1..Len(e.fields) :
            i # j /\ e.fields[i].Name = e.fields[j].Name

C15_LastWriteWins ==
    /\ raised = ExecError =>
            \E e \in Range(generators[Len(generators)]) : RepeatsMember(e)
    /\ pc # "raised" =>
        \A g \in 1..Len(generators) :
            \A i \in 1..Len(generators[g]) :
                LET n    == generators[g][i].name
                    last == Definitions(n)[Len(Definitions(n))]
                IN  /\ n \in DOMAIN structs_dict
                    /\ structs_dict[n] = ClassText(last)
                    /\ (pc = "returned" /\ last.kind = "EnumType") =>
                            /\ n \in DOMAIN ua_ns
                            /\ ua_ns[n].class = ClassText(last)

\* two documents that define Color and Shape differently were both loaded
C15_Witness ==
    /\ pc = "returned"
    /\ raised = NoError
    /\ Len(generators) = 2
    /\ Len(Definitions("Color")) = 2
    /\ Definitions("Color")[1].fields # Definitions("Color")[2].fields
    /\ Len(Definitions("Shape")) = 2
    /\ Definitions("Shape")[1].fields # Definitions("Shape")[2].fields

\* C16: with two load_type_definitions calls running concurrently, between
\* two shared-state writes made for one document no write made for another
\* document occurs.
C16_CommitWritesNotInterleaved ==
    \A i, j, k \in 1..Len(writes) :
        (/\ i < j
         /\ j < k
         /\ writes[i].call = writes[k].call
         /\ writes[i].node = writes[k].node)
            => /\ writes[j].call = writes[i].call
               /\ writes[j].node = writes[i].node

\* the last call of make_model_from_string was made with a text that is not
\* well-formed XML
MalformedCall(log) == log # <<>> /\ ~log[Len(log)].wellformed

\* C17: a make_model_from_string call with a text that is not well-formed XML
\* raises an error and leaves the model of the generator as it was.
C17_MalformedTextLeavesModel ==
    [][(Len(texts') > Len(texts) /\ MalformedCall(texts'))
            => (raised' = ParseError /\ model' = model)]_vars

\* a generator that holds a model was handed a malformed text and raised
C17_Witness ==
    /\ MalformedCall(texts)
    /\ parsed
    /\ model # <<>>
    /\ raised = ParseError

\* a declaration without the children that are neither values nor fields
StripChildren(d) ==
    [d EXCEPT !.children =
        SelectSeq(@, LAMBDA x : IF IsEnumDecl(d) THEN IsValueDecl(x)
                                ELSE IsFieldDecl(x))]

\* a document without the elements _make_model is to ignore
Strip(doc) ==
    LET decls == SelectSeq(doc, LAMBDA d : IsEnumDecl(d) \/ IsStructDecl(d))
    IN  [i \in 1..Len(decls) |-> StripChildren(decls[i])]

\* C18: top-level elements that are neither enumerated nor structured types,
\* and children of those that are neither values nor fields, are ignored:
\* the model built, and whether the build raised, are those of the document
\* with these elements removed.
C18_UnknownElementsIgnored ==
    Built =>
        LET stripped == make_model(<<>>, Strip(xml))
        IN  /\ model = stripped.model
            /\ (raised = SchemaParseError) = stripped.err
            /\ raised \in {NoError, SchemaParseError}

\* a model was built from a document that has an unknown top-level element
\* and an unknown child inside a declaration
C18_Witness ==
    /\ Built
    /\ raised = NoError
    /\ model # <<>>
    /\ \E i \in 1..Len(xml) : ~IsEnumDecl(xml[i]) /\ ~IsStructDecl(xml[i])
    /\ \E i \in 1..Len(xml) :
            /\ IsEnumDecl(xml[i]) \/ IsStructDecl(xml[i])
            /\ StripChildren(xml[i]) # xml[i]

\* the member line of a declared value: its name without spaces, None
\* renamed, and its value as declared
MemberLine(v) ==
    LET n == replace_spaces(v.Name)
    IN  "    " \o (IF n = "None" THEN "None_" ELSE n) \o " = " \o v.Value

\* C19: the definition emitted for an enumerated type has, after the class
\* line, exactly one member line per declared (name, value) pair, in the
\* declared order and with the declared value.
C19_EnumMembersAsDeclared ==
    parsed =>
        \A k \in 1..Len(EnumDecls(xml)) :
            k <= Len(emitted) =>
                LET values == DeclaredValues(EnumDecls(xml)[k])
                    code   == emitted[k]
                IN  /\ Len(code) = 1 + Len(values)
                    /\ \A i \in 1..Len(values) :
                            code[i + 1] = MemberLine(values[i])

\* the definition of Color, declared with three values, was emitted
C19_Witness ==
    /\ parsed
    /\ calls > 0
    /\ raised = NoError
    /\ xml[1] = Color
    /\ emitted # <<>>
    /\ emitted[1] = << "class Color(IntEnum):", "    Red = 0", "    Green = 1",
                       "    Blue = 2" >>

\* C20: the Name stored for an enumerated value has no space in it and is
\* never None, whatever the declared name.
C20_MemberNameNeverNone ==
    Built =>
        \A i \in 1..Len(model) :
            model[i].kind = "EnumType" =>
                \A j \in 1..Len(model[i].fields) :
                    /\ model[i].fields[j].Name # "None"
                    /\ find(model[i].fields[j].Name, " ") = 0

\* the part of a field line after the field name: the rendered type, up to
\* the default
RenderedType(line, name) ==
    LET rest == SubSeq(line, 5 + Len(name), Len(line))
    IN  SubSeq(rest, 1, find(rest, "=") - 1)

\* C21: in an emitted struct definition a field that is an array of Char is
\* rendered with the type String, not with a list of Char.
C21_CharArrayIsString ==
    \A i \in 1..Len(emitted) :
        model[i].kind = "Struct" =>
            \A j \in 1..Len(model[i].fields) :
                LET f == model[i].fields[j]
                IN  (f.array /\ f.uatype = "Char" /\ f.name # "SwitchField") =>
                        \E l \in 1..Len(emitted[i]) :
                            /\ startswith(emitted[i][l], "    " \o f.name \o ":")
                            /\ RenderedType(emitted[i][l], f.name) \in
                                    {":String ", ": Optional[String] "}

\* the get_python_classes / save_to_file calls made so far
EmissionCalls ==
    calls - Cardinality({k \in 1..Len(texts) : ~texts[k].wellformed})

\* the model has been emitted once
FirstEmission == parsed /\ EmissionCalls = 1

\* the fields of a struct as _make_model left them, seen after one emission
FreshFields(struct) ==
    IF struct.option_counter > 0 THEN Tail(struct.fields) ELSE struct.fields

\* line is the line of field f: optional with default None, or with the
\* default computed for f
RendersField(line, f) ==
    LET head == "    " \o f.name \o ":"
    IN  IF f.is_optional
        THEN /\ startswith(line, head \o " Optional[")
             /\ endswith(line, "] = None")
        ELSE /\ startswith(line, head)
             /\ ~startswith(line, head \o " Optional[")
             /\ \/ endswith(line, " = " \o f.value)
                \/ endswith(line, " = field(default_factory=lambda: " \o
                                  f.value \o ")")

\* the lines of the first emission of struct i are the Encoding line, when
\* the struct has optional fields, and then one line per field of fs
EmitsFields(i, fs) ==
    LET lines == FieldLines(emitted[i])
        body  == IF model[i].option_counter > 0 /\ lines # <<>>
                 THEN Tail(lines) ELSE lines
    IN  /\ model[i].option_counter > 0 =>
                /\ lines # <<>>
                /\ startswith(lines[1], "    Encoding:'ua.UInt32'")
        /\ Len(body) = Len(fs)
        /\ \A j \in 1..Len(fs) : RendersField(body[j], fs[j])

\* C22 as stated: in the first emission of a struct every optional field is
\* emitted as Optional with default None and every other field with its
\* computed default, after the Encoding line when there are optional fields.
C22_EveryFieldEmitted ==
    FirstEmission =>
        \A i \in 1..Len(emitted) :
            model[i].kind = "Struct" => EmitsFields(i, FreshFields(model[i]))

\* C22: in the first emission of a struct every field not named SwitchField
\* is emitted, an optional one as Optional with default None whatever its
\* default and whether or not it is an array, any other with its computed
\* default; a field named SwitchField gets no line; the Encoding line comes
\* first when the struct has optional fields, so two optional fields make
\* three lines.
C22_EveryFieldButSwitchFieldEmitted ==
    FirstEmission =>
        \A i \in 1..Len(emitted) :
            model[i].kind = "Struct" =>
                EmitsFields(i, SelectSeq(FreshFields(model[i]),
                                         LAMBDA f : f.name # "SwitchField"))

\* a struct with two optional fields, one of them an array, was emitted
\* once: three lines
C22_Witness ==
    /\ FirstEmission
    /\ raised = NoError
    /\ \E i \in 1..Len(emitted) :
        /\ model[i].kind = "Struct"
        /\ model[i].option_counter = 2
        /\ Len(FreshFields(model[i])) = 2
        /\ FreshFields(model[i])[1].array
        /\ Len(FieldLines(emitted[i])) = 3

\* what load_enums generates into: ua without an env argument
BoundByLoadEnums(n) == IF le.env = None THEN ua_ns[n].class ELSE env[n]

\* the enum the last read for the name n returned
LastRead(n) ==
    LET reads == SelectSeq(le.read, LAMBDA r : r.enum_name = n)
    IN  reads[Len(reads)].c

\* C23: without force, load_enums never browses, reads or adds to its model
\* an enumeration data type whose name is an attribute of ua when it is
\* called, and the attribute stays bound as it was; with force every listed
\* type is looked up, and a type that was read is bound to the class
\* generated from what was read.
C23_KnownEnumsSkippedUnlessForced ==
    /\ ~le.force =>
            \A n \in DOMAIN le.ua_before :
                /\ n \notin Range(le.browsed)
                /\ \A e \in Range(le.model) : e.name # n
                /\ n \in DOMAIN ua_ns
                /\ ua_ns[n] = le.ua_before[n]
    /\ (le.force /\ le.pc = "returned") =>
            /\ le.browsed = le.descs
            /\ \A r \in Range(le.read) :
                    BoundByLoadEnums(r.enum_name) =
                        enum_get_code(LastRead(r.enum_name))

\* load_enums without force returned after it was handed Color, bound in ua
\* before the call, and Status, which it generated
C23_Witness ==
    /\ le.pc = "returned"
    /\ ~le.force
    /\ "Color" \in DOMAIN le.ua_before
    /\ "Color" \in Range(le.descs)
    /\ \E e \in Range(le.model) : e.name = "Status"
    /\ ua_ns["Color"].class = OldColor

\* the member made of a name the server declares
MemberOf(raw, value) ==
    [Name  |-> IF raw = "None" THEN "None_" ELSE replace_spaces(raw),
     Value |-> ToString(value)]

\* C24: an enum built from an EnumStrings list has one member per string,
\* in list order, the i-th string counted from 0 with value i; an enum built
\* from an EnumValues table has one member per entry, in order, with the
\* value the server declares; the model holds only enums built this way.
C24_EnumMembersFromServer ==
    /\ \A r \in Range(le.read) :
        /\ Len(r.c.fields) = Len(r.val)
        /\ \A i \in 1..Len(r.val) :
            r.c.fields[i] = IF r.prop = "EnumStrings"
                            THEN MemberOf(r.val[i], i - 1)
                            ELSE MemberOf(r.val[i].DisplayName, r.val[i].Value)
    /\ \A e \in Range(le.model) : \E r \in Range(le.read) : e = r.c

\* load_enums returned a model with an enum built from three EnumStrings
\* and one built from an EnumValues table
C24_Witness ==
    /\ le.pc = "returned"
    /\ raised = NoError
    /\ Len(le.model) = 2
    /\ \E r \in Range(le.read) :
            r.prop = "EnumStrings" /\ Len(r.val) = 3 /\ r.c = le.model[1]
    /\ \E r \in Range(le.read) :
            r.prop = "EnumValues" /\ r.c = le.model[2]

\* the definition the elements before position k last gave the name n
LastBefore(n, k) ==
    emitted[CHOOSE i \in 1..(k - 1) :
                /\ model[i].name = n
                /\ \A j \in (i + 1)..(k - 1) : model[j].name # n]

\* C25: the definitions are produced and executed one at a time in model
\* order, enums before structs; when the execution of an element fails the
\* error reaches the caller, the elements before it have been executed and
\* no element after it has been.
C25_ExecutedInOrderUntilFailure ==
    /\ Len(emitted) <= Len(model)
    /\ \A i \in 1..Len(emitted) :
        /\ class_name(emitted[i]) = model[i].name
        /\ \A j \in 1..(i - 1) :
                model[i].kind = "EnumType" => model[j].kind = "EnumType"
    /\ raised = ExecError =>
        LET k == Len(emitted)
        IN  /\ k >= 1
            /\ RepeatsMember(model[k])
            /\ \A i \in 1..(k - 1) :
                /\ ~RepeatsMember(model[i])
                /\ model[i].name \in DOMAIN env
                /\ env[model[i].name] = LastBefore(model[i].name, k)
            /\ \A j \in (k + 1)..Len(model) :
                model[j].name \in DOMAIN env =>
                    \E i \in 1..(k - 1) : model[i].name = model[j].name

\* the first of two elements failed: the struct after it is not bound
C25_Witness ==
    /\ raised = ExecError
    /\ Len(model) = 2
    /\ Len(emitted) = 1
    /\ model[2].kind = "Struct"
    /\ model[2].name \notin DOMAIN env

\* the registration statements of a saved file
RegistrationLines(f) ==
    SelectSeq(f, LAMBDA line : startswith(line, "ua.register_extension_object("))

\* the identifier set_typeid bound to entry i of the first generator: the
\* one of the last registration of its name for that node, if the entry is
\* the first of its name; None otherwise
BoundTypeid(m, i) ==
    LET rs == SelectSeq(registry,
                    LAMBDA r : r.node = 1 /\ r.name = m[i].name)
    IN  IF rs # <<>> /\ \A j \in 1..(i - 1) : m[j].name # m[i].name
        THEN rs[Len(rs)].nodeid
        ELSE None

\* C26: a file saved with register = True ends with one registration
\* statement per Struct of the model, in model order, none for an EnumType,
\* each with the name of the struct and the identifier set_typeid bound to it.
C26_OneRegistrationPerStruct ==
    pc = "saved" =>
        LET regs    == RegistrationLines(file)
            structs == {i \in 1..Len(model) : model[i].kind = "Struct"}
            nth(k)  == CHOOSE i \in structs :
                            Cardinality({j \in structs : j < i}) = k - 1
        IN  /\ Len(regs) = Cardinality(structs)
            /\ SubSeq(file, Len(file) - Len(regs) + 1, Len(file)) = regs
            /\ \A k \in 1..Len(regs) :
                    regs[k] =
                        "ua.register_extension_object('" \o model[nth(k)].name \o
                        "', ua.NodeId.from_string('" \o
                        BoundTypeid(model, nth(k)) \o "'), " \o
                        model[nth(k)].name \o ")"

\* a model of an enum and a struct, both with a typeid, was saved with its
\* registration: one statement, for the struct
C26_Witness ==
    /\ pc = "saved"
    /\ Len(model) = 2
    /\ model[1].kind = "EnumType"
    /\ model[1].typeid # None
    /\ model[2].kind = "Struct"
    /\ model[2].typeid # None
    /\ Len(RegistrationLines(file)) = 1

\* the step is a get_python_classes or save_to_file call
EmissionStep == calls' = calls + 1 /\ texts' = texts

\* C27: emitting code leaves the model as it was: the field list, the
\* option_counter and the typeid of every element are unchanged by
\* get_code, and a second emission returns the text of the first.
C27_EmissionLeavesModel ==
    [][EmissionStep =>
        /\ Len(model') = Len(model)
        /\ \A i \in 1..Len(emitted') :
            /\ model'[i].fields = model[i].fields
            /\ model'[i].typeid = model[i].typeid
            /\ model[i].kind = "Struct" =>
                    model'[i].option_counter = model[i].option_counter
            /\ i <= Len(emitted) => emitted'[i] = emitted[i]]_vars

\* C28: a materialized field is an array exactly when the field declaration
\* immediately before it in its struct is an array-length marker; a Bit
\* field between a marker and the next materialized field ends the marker's
\* effect.
C28_ArrayOnlyRightAfterMarker ==
    (Built /\ Resolvable(xml)) =>
        \A k \in 1..Len(StructDecls(xml)) :
            LET fs     == DeclaredFields(StructDecls(xml)[k])
                fields == ModelStructs(model)[k].fields
            IN  \A i \in 1..Len(fields) :
                    LET at == NthKept(fs, i)
                    IN  fields[i].array =
                            (at > 1 /\ MarkerName(fs[at - 1].Name))

\* the declarations of a struct end with a marker that no materialized
\* field follows
MarkerLeftPending(fs) == MarkerPending(fs, Len(fs) + 1)

\* C29: the pending array flag does not pass from one struct to the next:
\* the first materialized field of a struct that is not the first of its
\* document is an array only after a marker of its own struct.
C29_FlagNotCarriedToNextStruct ==
    (Built /\ Resolvable(xml)) =>
        /\ raised = NoError
        /\ \A k \in 2..Len(StructDecls(xml)) :
            LET fs     == DeclaredFields(StructDecls(xml)[k])
                fields == ModelStructs(model)[k].fields
            IN  fields # <<>> =>
                    fields[1].array = MarkerPending(fs, NthKept(fs, 1))

\* a struct whose last materialized field is followed by a marker and a
\* Bit field stands before a struct whose first field has no marker
C29_Witness ==
    /\ Built
    /\ raised = NoError
    /\ Len(StructDecls(xml)) = 2
    /\ MarkerLeftPending(DeclaredFields(StructDecls(xml)[1]))
    /\ Len(ModelStructs(model)) = 2
    /\ ModelStructs(model)[2].fields # <<>>
    /\ ~ModelStructs(model)[2].fields[1].array

\* the steps of a load_type_definitions call that has begun
Loading == pc \notin {"idle", "saved"}

\* C30: the nodes are taken one after another in list order; the next node
\* is begun only when the one before it was processed without a failure; a
\* failure leaves what was registered and exposed before it in place; and
\* after a failure the call does nothing more: no node is read and nothing
\* is returned.
C30_FailureAtNodeEndsCall ==
    [][ /\ Loading => nodeIdx' \in {nodeIdx, nodeIdx + 1}
        /\ (Loading /\ nodeIdx' = nodeIdx + 1) =>
                /\ raised = NoError /\ raised' = NoError
                /\ Len(generators) = nodeIdx
                /\ nodeIdx' <= nodes
        /\ raised' # NoError =>
                /\ pc' \notin {"returned", "saved"}
                /\ registry' = registry
                /\ ua_ns' = ua_ns
        /\ raised = NoError
      ]_vars

\* the second of two nodes fails after the first node registered a class and
\* exposed an enum
C30_Witness ==
    /\ pc = "raised"
    /\ nodes = 2
    /\ nodeIdx = 2
    /\ \E r \in 1..Len(registry) : registry[r].node = 1
    /\ \E k \in DOMAIN ua_ns : ua_ns[k].node = 1

====
